---- MODULE Spec2Model ----
\* Input mode detector of UStevesGameSubsystem (FInputModeDetector) and the
\* foreground poll that drives its suppression flag.
EXTENDS Integers, Sequences, FiniteSets, TLC

\* ---------------------------------------------------------------------------
\* Bounds and program constants
\* ---------------------------------------------------------------------------

\* Highest player index an event carries in the model.
MaxSlot == 5

\* LastInputModeByPlayer.Init(DefaultInputMode, 4)
InitNum == 4

\* const float GamepadAxisThreshold = 0.2, in hundredths
GamepadAxisThreshold == 20

\* const float MouseMoveThreshold = 1
MouseMoveThreshold == 1

\* EInputMode (declared in StevesHelperCommon.h)
EInputMode == {"Mouse", "Keyboard", "Gamepad", "Unknown"}

DefaultInputMode == "Mouse"

DefaultButtonInputMode == "Keyboard"

\* Player indices events are delivered for: an index below zero (the parameter
\* is a signed int), a player inside the initial storage, and an index beyond
\* the initial length of the storage, which leaves InitNum .. MaxSlot - 1
\* between the initial storage and the index written.
EventSlots == {-1, 0, MaxSlot}

\* Player indices in the sense of the data model: 0-based.
PlayerSlots == 0 .. MaxSlot

\* Player indices the getters are asked about.
QuerySlots == {-1, 0} \cup (InitNum .. MaxSlot + 1)

\* The eight stick keys IsAGamepadButton leaves out.
StickKeys ==
  {"Gamepad_LeftStick_Up", "Gamepad_LeftStick_Down",
   "Gamepad_LeftStick_Left", "Gamepad_LeftStick_Right",
   "Gamepad_RightStick_Up", "Gamepad_RightStick_Down",
   "Gamepad_RightStick_Left", "Gamepad_RightStick_Right"}

\* FKey::IsGamepadKey holds for these keys.
GamepadKeys == StickKeys \cup {"Gamepad_FaceButton_Bottom"}

\* FKey::IsMouseButton holds for these keys.
MouseButtons == {"LeftMouseButton"}

\* Keys a key-down event carries.
Keys == GamepadKeys \cup MouseButtons \cup {"SpaceBar"}

\* Analog values an analog event carries, in hundredths.
AnalogValues == {-30, -20, 20, 30}

\* Screen-space deltas of a mouse-move event.
MouseDeltas == {-2, 1}

VARIABLES
  LastInputModeByPlayer,    \* TArray<EInputMode>, index i is element i+1
  LastButtonPressByPlayer,  \* TArray<EInputMode>
  bIgnoreEvents,            \* detector suppression flag
  bIsForeground,            \* subsystem's stored foreground state
  ZeroValue,                \* the EInputMode enumerator whose value is 0
  last,                     \* the operation that ran last, with its inputs and result
  fired,                    \* delegate calls made by the operation that ran last, in order
  crashed,                  \* a range check failed and ended the process
  broadcasts,               \* arguments of the OnWindowForegroundChanged broadcast made
                            \* last, <<>> before the first one
  bCheckedViewportClient,   \* subsystem: the viewport client's class has been looked at
  WarningsLogged,           \* number of times the viewport client warning was logged
  bSuppressMouseCursor,     \* the viewport client's cursor suppression flag
  TextureRenderTargetPools  \* TArray of pools, each told by its name

\* What the subsystem keeps besides the detector and the foreground state.
subsystemVars ==
  <<bCheckedViewportClient, WarningsLogged, bSuppressMouseCursor, TextureRenderTargetPools>>

vars == <<LastInputModeByPlayer, LastButtonPressByPlayer, bIgnoreEvents,
          bIsForeground, ZeroValue, last, fired, crashed, broadcasts,
          bCheckedViewportClient, WarningsLogged, bSuppressMouseCursor,
          TextureRenderTargetPools>>

\* ---------------------------------------------------------------------------
\* Detector: getters
\* ---------------------------------------------------------------------------

LastInputModeOf(arr, PlayerIndex) ==
  IF PlayerIndex >= 0 /\ PlayerIndex < Len(arr)
    THEN arr[PlayerIndex + 1]
    ELSE DefaultInputMode

\* Mutant of LastButtonInputModeOf: falls back to the main default.
LastButtonInputModeOf_MainDefault(arr, PlayerIndex) ==
  IF PlayerIndex >= 0 /\ PlayerIndex < Len(arr)
    THEN arr[PlayerIndex + 1]
    ELSE DefaultInputMode

LastButtonInputModeOf(arr, PlayerIndex) ==
  IF PlayerIndex >= 0 /\ PlayerIndex < Len(arr)
    THEN arr[PlayerIndex + 1]
    ELSE DefaultButtonInputMode

GetLastInputMode(PlayerIndex) ==
  LastInputModeOf(LastInputModeByPlayer, PlayerIndex)

GetLastButtonInputMode(PlayerIndex) ==
  LastButtonInputModeOf(LastButtonPressByPlayer, PlayerIndex)

\* ---------------------------------------------------------------------------
\* Detector: SetMode
\* ---------------------------------------------------------------------------

\* TArray::SetNum(NewNum) for NewNum > Num(): the added elements are
\* zero-constructed, i.e. hold the enumerator whose value is 0.
SetNum(arr, NewNum) ==
  arr \o [k \in 1 .. (NewNum - Len(arr)) |-> ZeroValue]

\* Mutant of StoreMode: the array is not grown, an index at or beyond its
\* length is not stored.
StoreMode_NoGrow(arr, PlayerIndex, NewMode) ==
  IF PlayerIndex < 0 \/ PlayerIndex >= Len(arr)
    THEN arr
    ELSE [arr EXCEPT ![PlayerIndex + 1] = NewMode]

\* if (PlayerIndex >= Arr.Num()) Arr.SetNum(PlayerIndex + 1);
\* Arr[PlayerIndex] = NewMode;
\* A negative PlayerIndex passes the growth test and indexes outside the
\* array: the array itself is left as it was.
StoreMode(arr, PlayerIndex, NewMode) ==
  LET grown == IF PlayerIndex >= Len(arr) THEN SetNum(arr, PlayerIndex + 1) ELSE arr
  IN  IF PlayerIndex < 0
        THEN arr
        ELSE [grown EXCEPT ![PlayerIndex + 1] = NewMode]

\* A delegate call: which delegate, and its two arguments.
KindOf(n) == n[1]

PlayerIndexOf(n) == n[2]

ModeOf(n) == n[3]

ButtonNotification(PlayerIndex, NewMode) ==
  <<"OnButtonInputModeChanged", PlayerIndex, NewMode>>

MainNotification(PlayerIndex, NewMode) ==
  <<"OnInputModeChanged", PlayerIndex, NewMode>>

\* The button branch of SetMode writes.
ButtonChanges(button, PlayerIndex, NewMode, bIsButton) ==
  /\ bIsButton
  /\ NewMode # "Unknown"
  /\ NewMode # LastButtonInputModeOf(button, PlayerIndex)

\* Mutant of MainChanges: a Mouse mode is taken as a change whatever is stored.
MainChanges_MouseAlways(main, PlayerIndex, NewMode) ==
  /\ NewMode # "Unknown"
  /\ (NewMode = "Mouse" \/ NewMode # LastInputModeOf(main, PlayerIndex))

\* Mutant of MainChanges: the stored mode is not compared.
MainChanges_NoCompare(main, PlayerIndex, NewMode) ==
  NewMode # "Unknown"

\* The main branch of SetMode writes.
MainChanges(main, PlayerIndex, NewMode) ==
  /\ NewMode # "Unknown"
  /\ NewMode # LastInputModeOf(main, PlayerIndex)

\* Mutant of SetMode: the main-mode delegate is called before the button-mode
\* delegate.
SetMode_MainFirst(main, button, PlayerIndex, NewMode, bIsButton) ==
  LET bButtonChanged == ButtonChanges(button, PlayerIndex, NewMode, bIsButton)
      bMainChanged   == MainChanges(main, PlayerIndex, NewMode)
  IN  << IF bMainChanged THEN StoreMode(main, PlayerIndex, NewMode) ELSE main,
         IF bButtonChanged THEN StoreMode(button, PlayerIndex, NewMode) ELSE button,
         (IF bMainChanged THEN <<MainNotification(PlayerIndex, NewMode)>> ELSE <<>>)
           \o (IF bButtonChanged THEN <<ButtonNotification(PlayerIndex, NewMode)>> ELSE <<>>),
         (bButtonChanged \/ bMainChanged) /\ PlayerIndex < 0,
         <<>> >>

\* What the two getters return for the player while the arrays are as given:
\* the answer a delegate's handler gets if it asks during the call.
Observation(main, button, PlayerIndex) ==
  << LastInputModeOf(main, PlayerIndex), LastButtonInputModeOf(button, PlayerIndex) >>

\* Mutant of SetMode: the button-mode delegate is called straight after the
\* button array is written, before the main array is.
SetMode_NotifyEarly(main, button, PlayerIndex, NewMode, bIsButton) ==
  LET bButtonChanged == ButtonChanges(button, PlayerIndex, NewMode, bIsButton)
      bMainChanged   == MainChanges(main, PlayerIndex, NewMode)
      mainAfter   == IF bMainChanged THEN StoreMode(main, PlayerIndex, NewMode) ELSE main
      buttonAfter == IF bButtonChanged THEN StoreMode(button, PlayerIndex, NewMode) ELSE button
  IN  << mainAfter,
         buttonAfter,
         (IF bButtonChanged THEN <<ButtonNotification(PlayerIndex, NewMode)>> ELSE <<>>)
           \o (IF bMainChanged THEN <<MainNotification(PlayerIndex, NewMode)>> ELSE <<>>),
         (bButtonChanged \/ bMainChanged) /\ PlayerIndex < 0,
         (IF bButtonChanged THEN <<Observation(main, buttonAfter, PlayerIndex)>> ELSE <<>>)
           \o (IF bMainChanged THEN <<Observation(mainAfter, buttonAfter, PlayerIndex)>> ELSE <<>>) >>

\* SetMode(PlayerIndex, NewMode, bIsButton) on the two arrays: the main array
\* after the call, the button array after the call, the delegate calls it
\* makes in order, whether it indexed an array outside its bounds, and, for
\* each delegate call, what the getters return while it runs. Both arrays are
\* written before either delegate is called.
SetMode(main, button, PlayerIndex, NewMode, bIsButton) ==
  LET bButtonChanged == ButtonChanges(button, PlayerIndex, NewMode, bIsButton)
      bMainChanged   == MainChanges(main, PlayerIndex, NewMode)
      mainAfter   == IF bMainChanged THEN StoreMode(main, PlayerIndex, NewMode) ELSE main
      buttonAfter == IF bButtonChanged THEN StoreMode(button, PlayerIndex, NewMode) ELSE button
  IN  << mainAfter,
         buttonAfter,
         (IF bButtonChanged THEN <<ButtonNotification(PlayerIndex, NewMode)>> ELSE <<>>)
           \o (IF bMainChanged THEN <<MainNotification(PlayerIndex, NewMode)>> ELSE <<>>),
         (bButtonChanged \/ bMainChanged) /\ PlayerIndex < 0,
         (IF bButtonChanged THEN <<Observation(mainAfter, buttonAfter, PlayerIndex)>> ELSE <<>>)
           \o (IF bMainChanged THEN <<Observation(mainAfter, buttonAfter, PlayerIndex)>> ELSE <<>>) >>

\* The parts of what SetMode gives back.
MainAfter(r) == r[1]

ButtonAfter(r) == r[2]

FiredBy(r) == r[3]

OutOfBounds(r) == r[4]

ObservedBy(r) == r[5]

\* ---------------------------------------------------------------------------
\* Detector: classification of events
\* ---------------------------------------------------------------------------

IsGamepadKey(Key) == Key \in GamepadKeys

IsMouseButton(Key) == Key \in MouseButtons

\* Mutant of IsAGamepadButton: one stick key is missing from the list.
IsAGamepadButton_SevenKeys(Key) ==
  /\ IsGamepadKey(Key)
  /\ Key # "Gamepad_LeftStick_Up"
  /\ Key # "Gamepad_LeftStick_Down"
  /\ Key # "Gamepad_LeftStick_Left"
  /\ Key # "Gamepad_LeftStick_Right"
  /\ Key # "Gamepad_RightStick_Up"
  /\ Key # "Gamepad_RightStick_Down"
  /\ Key # "Gamepad_RightStick_Left"

IsAGamepadButton(Key) ==
  /\ IsGamepadKey(Key)
  /\ Key # "Gamepad_LeftStick_Up"
  /\ Key # "Gamepad_LeftStick_Down"
  /\ Key # "Gamepad_LeftStick_Left"
  /\ Key # "Gamepad_LeftStick_Right"
  /\ Key # "Gamepad_RightStick_Up"
  /\ Key # "Gamepad_RightStick_Down"
  /\ Key # "Gamepad_RightStick_Left"
  /\ Key # "Gamepad_RightStick_Right"

\* The SetMode call an event leads to: none, or one with a mode and a button
\* flag.
NoCall == <<FALSE, "None", FALSE>>

Call(NewMode, bIsButton) == <<TRUE, NewMode, bIsButton>>

Called(c) == c[1]

NewModeOf(c) == c[2]

IsButtonOf(c) == c[3]

\* Mutant of ProcessKeyOrButton: mouse buttons are not told apart from keys.
ProcessKeyOrButton_NoMouse(Key) ==
  IF IsGamepadKey(Key)
    THEN Call("Gamepad", IsAGamepadButton(Key))
    ELSE Call("Keyboard", TRUE)

ProcessKeyOrButton(Key) ==
  IF IsGamepadKey(Key)
    THEN Call("Gamepad", IsAGamepadButton(Key))
    ELSE IF IsMouseButton(Key)
      THEN Call("Mouse", TRUE)
      ELSE Call("Keyboard", TRUE)

\* Mutant of AnalogCall: the analog event is passed on as a button event.
AnalogCall_AsButton(AnalogValue) ==
  IF AnalogValue > GamepadAxisThreshold THEN Call("Gamepad", TRUE) ELSE NoCall

AnalogCall(AnalogValue) ==
  IF AnalogValue > GamepadAxisThreshold THEN Call("Gamepad", FALSE) ELSE NoCall

Abs(x) == IF x < 0 THEN -x ELSE x

\* Mutant of MouseMoveCall: only the horizontal distance is looked at.
MouseMoveCall_XOnly(DistX, DistY) ==
  IF Abs(DistX) > MouseMoveThreshold
    THEN Call("Mouse", FALSE)
    ELSE NoCall

MouseMoveCall(DistX, DistY) ==
  IF Abs(DistX) > MouseMoveThreshold \/ Abs(DistY) > MouseMoveThreshold
    THEN Call("Mouse", FALSE)
    ELSE NoCall

\* Mutant of MouseButtonDownCall: the press is not passed on as a button.
MouseButtonDownCall_NotButton == Call("Mouse", FALSE)

MouseButtonDownCall == Call("Mouse", TRUE)

MouseWheelOrGestureCall == Call("Mouse", FALSE)

\* Mutant of ShouldProcessInputEvents: the flag is not looked at.
ShouldProcessInputEvents_Always == TRUE

ShouldProcessInputEvents == ~bIgnoreEvents

\* ---------------------------------------------------------------------------
\* Record of the operation that ran last
\* ---------------------------------------------------------------------------

\* op, PlayerIndex, Key, AnalogValue, DistX, DistY: the operation and its inputs;
\* ignored: bIgnoreEvents when a handler ran; call: the SetMode call the handler
\* made; oob: the handler indexed an array outside its bounds; consumed: the
\* handler's return value; result: a getter's return value; viewport, polled,
\* broadcast: CheckForeground found the viewport, what IsForegroundWindow()
\* returned, and whether OnWindowForegroundChanged was broadcast; preceding:
\* for a mouse move that called SetMode right after another one for the same
\* player index had, the number of delegate calls that one made, else -1;
\* mappings, preference, passed, theme, preferred, order: an image lookup's
\* list of mappings, the device preference asked for, the one handed to the
\* choice among the mappings, whether a theme is there, the position of the
\* mapping chosen (0: none), and the preference order of a choice made on its
\* own; client, name, create, pool: the viewport client a callback of the
\* subsystem found, a pool request's name and bAutoCreate and the pool given
\* back (0: nullptr); observed: what the two getters returned for the event's
\* player index at each delegate call, in order; mode: the NewMode a callback
\* was called with.
NoOp ==
  <<"None", 0, "None", 0, 0, 0, FALSE, NoCall, FALSE, FALSE, "None", FALSE, FALSE, FALSE,
    -1, <<>>, "None", "None", FALSE, 0, <<>>, "None", "None", FALSE, 0, <<>>, "None">>

Op(l) == l[1]

SlotOf(l) == l[2]

KeyOf(l) == l[3]

AnalogValueOf(l) == l[4]

DistXOf(l) == l[5]

DistYOf(l) == l[6]

Ignored(l) == l[7]

CallOf(l) == l[8]

Oob(l) == l[9]

Consumed(l) == l[10]

ResultOf(l) == l[11]

ViewportOf(l) == l[12]

PolledOf(l) == l[13]

Broadcast(l) == l[14]

PrecedingMove(l) == l[15]

ObservedOf(l) == l[26]

\* An event as it arrives at a handler.
Event(op, PlayerIndex, Key, AnalogValue, DistX, DistY) ==
  [NoOp EXCEPT ![1] = op, ![2] = PlayerIndex, ![3] = Key, ![4] = AnalogValue,
               ![5] = DistX, ![6] = DistY]

EventOps ==
  {"HandleKeyDownEvent", "HandleAnalogInputEvent", "HandleMouseMoveEvent",
   "HandleMouseButtonDownEvent", "HandleMouseWheelOrGestureEvent"}

\* ---------------------------------------------------------------------------
\* Detector: event handlers
\* ---------------------------------------------------------------------------

\* Mutant of HandlerResult: an event that led to a SetMode call is consumed.
HandlerResult_ConsumeProcessed(bSetModeCalled) == bSetModeCalled

\* What a handler returns to Slate, whether or not it called SetMode:
\* `return false`, the event is passed on.
HandlerResult(bSetModeCalled) == FALSE

\* The body shared by the five handlers: if (ShouldProcessInputEvents()) make
\* the SetMode call `call`, if any; return false. `rec` names the event.
\* An index outside the array either fails the array's range check, which ends
\* the process, or (range checks compiled out) writes outside the array and
\* carries on.
HandleEvent(rec, call) ==
  /\ UNCHANGED <<bIgnoreEvents, bIsForeground, ZeroValue, broadcasts>>
  /\ UNCHANGED subsystemVars
  /\ IF ShouldProcessInputEvents /\ Called(call)
       THEN LET r == SetMode(LastInputModeByPlayer, LastButtonPressByPlayer,
                             SlotOf(rec), NewModeOf(call), IsButtonOf(call))
                done == [rec EXCEPT ![7] = FALSE, ![8] = call, ![9] = OutOfBounds(r),
                                ![10] = HandlerResult(TRUE)]
            IN  \/ /\ OutOfBounds(r)
                   /\ crashed' = TRUE
                   /\ fired' = <<>>
                   /\ last' = done
                   /\ UNCHANGED <<LastInputModeByPlayer, LastButtonPressByPlayer>>
                \/ /\ LastInputModeByPlayer' = MainAfter(r)
                   /\ LastButtonPressByPlayer' = ButtonAfter(r)
                   /\ fired' = FiredBy(r)
                   /\ last' = [done EXCEPT ![26] = ObservedBy(r)]
                   /\ UNCHANGED crashed
       ELSE /\ fired' = <<>>
            /\ last' = [rec EXCEPT ![7] = bIgnoreEvents, ![10] = HandlerResult(FALSE)]
            /\ UNCHANGED <<LastInputModeByPlayer, LastButtonPressByPlayer, crashed>>

HandleKeyDownEvent(PlayerIndex, Key) ==
  /\ ~crashed
  /\ HandleEvent(Event("HandleKeyDownEvent", PlayerIndex, Key, 0, 0, 0),
                 ProcessKeyOrButton(Key))

HandleAnalogInputEvent(PlayerIndex, AnalogValue) ==
  /\ ~crashed
  /\ HandleEvent(Event("HandleAnalogInputEvent", PlayerIndex, "None", AnalogValue, 0, 0),
                 AnalogCall(AnalogValue))

\* What a mouse move that calls SetMode follows: the delegate calls of the
\* operation before it, if that was a mouse move for the same player index
\* that called SetMode too.
MoveBefore(PlayerIndex, call) ==
  IF /\ ShouldProcessInputEvents
     /\ Called(call)
     /\ Op(last) = "HandleMouseMoveEvent"
     /\ Called(CallOf(last))
     /\ SlotOf(last) = PlayerIndex
    THEN Len(fired)
    ELSE -1

HandleMouseMoveEvent(PlayerIndex, DistX, DistY) ==
  /\ ~crashed
  /\ HandleEvent([Event("HandleMouseMoveEvent", PlayerIndex, "None", 0, DistX, DistY)
                   EXCEPT ![15] = MoveBefore(PlayerIndex, MouseMoveCall(DistX, DistY))],
                 MouseMoveCall(DistX, DistY))

HandleMouseButtonDownEvent(PlayerIndex) ==
  /\ ~crashed
  /\ HandleEvent(Event("HandleMouseButtonDownEvent", PlayerIndex, "None", 0, 0, 0),
                 MouseButtonDownCall)

HandleMouseWheelOrGestureEvent(PlayerIndex) ==
  /\ ~crashed
  /\ HandleEvent(Event("HandleMouseWheelOrGestureEvent", PlayerIndex, "None", 0, 0, 0),
                 MouseWheelOrGestureCall)

\* ---------------------------------------------------------------------------
\* Subsystem: getters and the foreground poll
\* ---------------------------------------------------------------------------

GetLastInputModeUsed(PlayerIndex) ==
  /\ ~crashed
  /\ last' = [Event("GetLastInputModeUsed", PlayerIndex, "None", 0, 0, 0)
                EXCEPT ![11] = GetLastInputMode(PlayerIndex)]
  /\ fired' = <<>>
  /\ UNCHANGED <<LastInputModeByPlayer, LastButtonPressByPlayer, bIgnoreEvents,
                 bIsForeground, ZeroValue, crashed, broadcasts>>
  /\ UNCHANGED subsystemVars

GetLastInputButtonPressed(PlayerIndex) ==
  /\ ~crashed
  /\ last' = [Event("GetLastInputButtonPressed", PlayerIndex, "None", 0, 0, 0)
                EXCEPT ![11] = GetLastButtonInputMode(PlayerIndex)]
  /\ fired' = <<>>
  /\ UNCHANGED <<LastInputModeByPlayer, LastButtonPressByPlayer, bIgnoreEvents,
                 bIsForeground, ZeroValue, crashed, broadcasts>>
  /\ UNCHANGED subsystemVars

ForegroundNotification(bForeground) == <<"OnWindowForegroundChanged", bForeground>>

\* Mutant of ForegroundChanged: the stored state is not compared.
ForegroundChanged_Always(bNewForeground) == TRUE

\* if (bNewForeground != bIsForeground)
ForegroundChanged(bNewForeground) == bNewForeground # bIsForeground

\* The timer callback. bViewport: GEngine, its GameViewport and the Viewport
\* are there; bWindowForeground: what IsForegroundWindow() returns.
\* Mutant of IgnoreWhen: the detector ignores events while in the foreground.
IgnoreWhen_Foreground(bForeground) == bForeground

\* InputDetector->bIgnoreEvents = !bIsForeground;
IgnoreWhen(bForeground) == ~bForeground

CheckForeground(bViewport, bWindowForeground) ==
  LET bNewForeground == IF bViewport THEN bWindowForeground ELSE bIsForeground
      rec == [NoOp EXCEPT ![1] = "CheckForeground", ![12] = bViewport,
                          ![13] = bWindowForeground]
  IN  /\ ~crashed
      /\ UNCHANGED <<LastInputModeByPlayer, LastButtonPressByPlayer, ZeroValue, crashed>>
      /\ UNCHANGED subsystemVars
      /\ IF ForegroundChanged(bNewForeground)
           THEN /\ bIsForeground' = bNewForeground
                /\ bIgnoreEvents' = IgnoreWhen(bNewForeground)
                /\ fired' = <<ForegroundNotification(bNewForeground)>>
                /\ broadcasts' = <<bNewForeground>>
                /\ last' = [rec EXCEPT ![14] = TRUE]
           ELSE /\ last' = rec
                /\ fired' = <<>>
                /\ UNCHANGED <<bIsForeground, bIgnoreEvents, broadcasts>>

\* ---------------------------------------------------------------------------
\* Specification
\* ---------------------------------------------------------------------------

\* bCheckedViewportClient = false; no pool yet; the cursor is not suppressed.
InitSubsystem ==
  /\ bCheckedViewportClient = FALSE
  /\ WarningsLogged = 0
  /\ bSuppressMouseCursor = FALSE
  /\ TextureRenderTargetPools = <<>>

Init ==
  /\ LastInputModeByPlayer = [k \in 1 .. InitNum |-> DefaultInputMode]
  /\ LastButtonPressByPlayer = [k \in 1 .. InitNum |-> DefaultButtonInputMode]
  /\ bIgnoreEvents = FALSE
  /\ bIsForeground = TRUE
  /\ ZeroValue \in EInputMode
  /\ last = NoOp
  /\ fired = <<>>
  /\ crashed = FALSE
  /\ broadcasts = <<>>
  /\ InitSubsystem

Next ==
  \/ \E PlayerIndex \in EventSlots, Key \in Keys : HandleKeyDownEvent(PlayerIndex, Key)
  \/ \E PlayerIndex \in EventSlots, AnalogValue \in AnalogValues :
       HandleAnalogInputEvent(PlayerIndex, AnalogValue)
  \/ \E PlayerIndex \in EventSlots, DistX \in MouseDeltas, DistY \in MouseDeltas :
       HandleMouseMoveEvent(PlayerIndex, DistX, DistY)
  \/ \E PlayerIndex \in EventSlots : HandleMouseButtonDownEvent(PlayerIndex)
  \/ \E PlayerIndex \in EventSlots : HandleMouseWheelOrGestureEvent(PlayerIndex)
  \/ \E PlayerIndex \in QuerySlots : GetLastInputModeUsed(PlayerIndex)
  \/ \E PlayerIndex \in QuerySlots : GetLastInputButtonPressed(PlayerIndex)
  \/ \E bViewport \in BOOLEAN, bWindowForeground \in BOOLEAN :
       CheckForeground(bViewport, bWindowForeground)

Spec == Init /\ [][Next]_vars

\* Player indices at and beyond the initial length of the storage: an event
\* for the higher one grows an array past the lower one.
HighSlots == {InitNum, MaxSlot}

\* The handlers and the foreground poll, with events for the players beyond
\* the initial storage.
NextHighSlots ==
  \/ \E PlayerIndex \in HighSlots, Key \in Keys : HandleKeyDownEvent(PlayerIndex, Key)
  \/ \E PlayerIndex \in HighSlots, AnalogValue \in AnalogValues :
       HandleAnalogInputEvent(PlayerIndex, AnalogValue)
  \/ \E PlayerIndex \in HighSlots, DistX \in MouseDeltas, DistY \in MouseDeltas :
       HandleMouseMoveEvent(PlayerIndex, DistX, DistY)
  \/ \E PlayerIndex \in HighSlots : HandleMouseButtonDownEvent(PlayerIndex)
  \/ \E PlayerIndex \in HighSlots : HandleMouseWheelOrGestureEvent(PlayerIndex)
  \/ \E bViewport \in BOOLEAN, bWindowForeground \in BOOLEAN :
       CheckForeground(bViewport, bWindowForeground)

SpecHighSlots == Init /\ [][NextHighSlots]_vars

\* ---------------------------------------------------------------------------
\* Input images: device preference and the choice among an action's or axis's
\* mappings
\* ---------------------------------------------------------------------------

\* Longest list of mappings an action or axis has in the model.
MaxMappings == 3

\* EInputImageDevicePreference, the enumerators the subsystem names.
DevicePreferences ==
  {"Auto", "Gamepad_Keyboard_Mouse", "Gamepad_Mouse_Keyboard",
   "Gamepad_Keyboard_Mouse_Button"}

\* Keys the mappings of the model are bound to: two gamepad keys, a mouse
\* button and a keyboard key.
MappingKeys ==
  {"Gamepad_FaceButton_Bottom", "Gamepad_LeftStick_Up", "LeftMouseButton", "SpaceBar"}

\* Lists of mappings GetActionMappingByName / GetAxisMappingByName fill in, in
\* declared order; a mapping is told by its key.
RECURSIVE MappingLists(_)
MappingLists(n) ==
  IF n = 0
    THEN {<<>>}
    ELSE MappingLists(n - 1)
           \cup {Append(l, k) : l \in {m \in MappingLists(n - 1) : Len(m) = n - 1},
                                k \in MappingKeys}

\* Rows of the theme's image tables (rows are named as the key).
KeySpriteRows == {"Gamepad_FaceButton_Bottom", "LeftMouseButton", "SpaceBar"}

\* The device-match predicates a preference order is made of.
DevicePredicates ==
  {"Gamepad", "Keyboard", "Mouse", "LastButtonDevice", "LastInputDevice"}

\* The device a key belongs to.
DeviceOf(Key) ==
  IF IsGamepadKey(Key) THEN "Gamepad"
  ELSE IF IsMouseButton(Key) THEN "Mouse"
  ELSE "Keyboard"

\* A key matches a device-match predicate.
MatchesDevice(predicate, Key, LastInput, LastButtonInput) ==
  IF predicate = "LastButtonDevice" THEN DeviceOf(Key) = LastButtonInput
  ELSE IF predicate = "LastInputDevice" THEN DeviceOf(Key) = LastInput
  ELSE DeviceOf(Key) = predicate

\* Mutant of ScanMappings: when no key matches, the last mapping is given back.
RECURSIVE ScanMappings_Fallback(_, _, _, _, _)
ScanMappings_Fallback(AllMappings, k, predicate, LastInput, LastButtonInput) ==
  IF k > Len(AllMappings) THEN Len(AllMappings)
  ELSE IF MatchesDevice(predicate, AllMappings[k], LastInput, LastButtonInput) THEN k
  ELSE ScanMappings_Fallback(AllMappings, k + 1, predicate, LastInput, LastButtonInput)

\* Scan of the mappings from position k on, in declared order: the position of
\* the first one whose key matches the predicate, 0 if there is none.
RECURSIVE ScanMappings(_, _, _, _, _)
ScanMappings(AllMappings, k, predicate, LastInput, LastButtonInput) ==
  IF k > Len(AllMappings) THEN 0
  ELSE IF MatchesDevice(predicate, AllMappings[k], LastInput, LastButtonInput) THEN k
  ELSE ScanMappings(AllMappings, k + 1, predicate, LastInput, LastButtonInput)

\* Mutant of WalkOrder: a match of a later predicate replaces an earlier one.
RECURSIVE WalkOrder_LastPredicate(_, _, _, _, _)
WalkOrder_LastPredicate(AllMappings, order, j, LastInput, LastButtonInput) ==
  IF j > Len(order) THEN 0
  ELSE LET later == WalkOrder_LastPredicate(AllMappings, order, j + 1,
                                            LastInput, LastButtonInput)
           found == ScanMappings(AllMappings, 1, order[j], LastInput, LastButtonInput)
       IN  IF later # 0 THEN later ELSE found

\* Walk of the preference order from position j on, in priority order: the
\* first mapping matching the first predicate that matches any, 0 if none does.
RECURSIVE WalkOrder(_, _, _, _, _)
WalkOrder(AllMappings, order, j, LastInput, LastButtonInput) ==
  IF j > Len(order) THEN 0
  ELSE LET found == ScanMappings(AllMappings, 1, order[j], LastInput, LastButtonInput)
       IN  IF found # 0
             THEN found
             ELSE WalkOrder(AllMappings, order, j + 1, LastInput, LastButtonInput)

\* resolvePreferred(candidates, preferenceOrder, lastMainMode, lastButtonMode):
\* the position of the mapping chosen, 0 for none.
ResolvePreferred(AllMappings, order, LastInput, LastButtonInput) ==
  WalkOrder(AllMappings, order, 1, LastInput, LastButtonInput)

\* The preference order an enumerator of EInputImageDevicePreference names.
\* Auto names none: the lookups replace it before they resolve.
OrderOf(DevicePreference) ==
  CASE DevicePreference = "Gamepad_Keyboard_Mouse" -> <<"Gamepad", "Keyboard", "Mouse">>
    [] DevicePreference = "Gamepad_Mouse_Keyboard" -> <<"Gamepad", "Mouse", "Keyboard">>
    [] DevicePreference = "Gamepad_Keyboard_Mouse_Button" ->
         <<"Gamepad", "Keyboard", "Mouse", "LastButtonDevice">>
    [] OTHER -> <<>>

GetPreferedActionOrAxisMapping(AllMappings, DevicePreference, LastInput, LastButtonInput) ==
  ResolvePreferred(AllMappings, OrderOf(DevicePreference), LastInput, LastButtonInput)

\* Mutant of AxisPreference: Auto is replaced as the action lookup replaces it.
AxisPreference_AsAction(DevicePreference) ==
  IF DevicePreference = "Auto" THEN "Gamepad_Keyboard_Mouse_Button" ELSE DevicePreference

\* GetInputImageSpriteFromAction: if (DevicePreference == Auto)
\*   DevicePreference = Gamepad_Keyboard_Mouse_Button;
ActionPreference(DevicePreference) ==
  IF DevicePreference = "Auto" THEN "Gamepad_Keyboard_Mouse_Button" ELSE DevicePreference

\* GetInputImageSpriteFromAxis: if (DevicePreference == Auto)
\*   DevicePreference = Gamepad_Mouse_Keyboard;
AxisPreference(DevicePreference) ==
  IF DevicePreference = "Auto" THEN "Gamepad_Mouse_Keyboard" ELSE DevicePreference

\* GetInputImageSpriteFromKey: the sprite of the row named as the key, in the
\* table of the given or the default theme; "None" is nullptr.
GetInputImageSpriteFromKey(Key, bTheme) ==
  IF bTheme /\ Key \in KeySpriteRows THEN Key ELSE "None"

\* The parts of a lookup kept in the operation record.
MappingsOf(l) == l[16]

DevicePreferenceOf(l) == l[17]

PassedPreference(l) == l[18]

ThemeOf(l) == l[19]

Preferred(l) == l[20]

OrderGiven(l) == l[21]

\* A lookup asked for and not made yet: the mappings of the name, the
\* preference, the player index and whether a theme is there.
LookupRequest(AllMappings, DevicePreference, PlayerIdx, bTheme) ==
  [NoOp EXCEPT ![1] = "Lookup", ![2] = PlayerIdx, ![16] = AllMappings,
               ![17] = DevicePreference, ![19] = bTheme]

\* A choice among mappings asked for with a preference order of its own.
ResolveRequest(AllMappings, order) ==
  [NoOp EXCEPT ![1] = "Resolve", ![16] = AllMappings, ![21] = order]

\* The body shared by the two lookups by name; DevicePreference is the
\* preference after Auto has been replaced.
LookupByName(op, DevicePreference) ==
  LET AllMappings == MappingsOf(last)
      PlayerIdx == SlotOf(last)
      LastInput == GetLastInputMode(PlayerIdx)
      LastButtonInput == GetLastButtonInputMode(PlayerIdx)
      found == GetPreferedActionOrAxisMapping(AllMappings, DevicePreference,
                                              LastInput, LastButtonInput)
  IN  /\ last' = [last EXCEPT
                    ![1] = op,
                    ![3] = IF found # 0 THEN AllMappings[found] ELSE "None",
                    ![11] = IF found # 0
                              THEN GetInputImageSpriteFromKey(AllMappings[found], ThemeOf(last))
                              ELSE "None",
                    ![18] = DevicePreference,
                    ![20] = found]
      /\ fired' = <<>>
      /\ UNCHANGED <<LastInputModeByPlayer, LastButtonPressByPlayer, bIgnoreEvents,
                     bIsForeground, ZeroValue, crashed, broadcasts>>
      /\ UNCHANGED subsystemVars

GetInputImageSpriteFromAction ==
  /\ Op(last) = "Lookup"
  /\ LookupByName("GetInputImageSpriteFromAction", ActionPreference(DevicePreferenceOf(last)))

GetInputImageSpriteFromAxis ==
  /\ Op(last) = "Lookup"
  /\ LookupByName("GetInputImageSpriteFromAxis", AxisPreference(DevicePreferenceOf(last)))

\* The choice among mappings on its own, for player 0's modes.
Resolve ==
  /\ Op(last) = "Resolve"
  /\ last' = [last EXCEPT
                ![1] = "ResolvePreferred",
                ![20] = ResolvePreferred(MappingsOf(last), OrderGiven(last),
                                         GetLastInputMode(0), GetLastButtonInputMode(0))]
  /\ fired' = <<>>
  /\ UNCHANGED <<LastInputModeByPlayer, LastButtonPressByPlayer, bIgnoreEvents,
                 bIsForeground, ZeroValue, crashed, broadcasts>>
  /\ UNCHANGED subsystemVars

\* Modes a slot inside the initial storage can hold.
StoredModes == {"Mouse", "Keyboard", "Gamepad"}

\* Preference orders the choice is asked for: every order of at most two
\* predicates, and the orders the enumerators name.
PreferenceOrders ==
  {<<>>} \cup {<<p>> : p \in DevicePredicates}
    \cup {<<p, q>> : p \in DevicePredicates, q \in DevicePredicates}
    \cup {OrderOf(d) : d \in DevicePreferences}

\* Player indices the lookups are made for: player 0, and the first index
\* beyond the initial storage.
LookupSlots == {0, InitNum}

\* The detector with player 0 in any pair of modes, and one lookup or choice
\* asked for.
InitResolver ==
  /\ \E main \in StoredModes :
       LastInputModeByPlayer = [k \in 1 .. InitNum |-> IF k = 1 THEN main ELSE DefaultInputMode]
  /\ \E button \in StoredModes :
       LastButtonPressByPlayer =
         [k \in 1 .. InitNum |-> IF k = 1 THEN button ELSE DefaultButtonInputMode]
  /\ bIgnoreEvents = FALSE
  /\ bIsForeground = TRUE
  /\ ZeroValue \in EInputMode
  /\ fired = <<>>
  /\ crashed = FALSE
  /\ broadcasts = <<>>
  /\ InitSubsystem
  /\ \/ \E AllMappings \in MappingLists(MaxMappings), DevicePreference \in DevicePreferences,
           PlayerIdx \in LookupSlots, bTheme \in BOOLEAN :
          last = LookupRequest(AllMappings, DevicePreference, PlayerIdx, bTheme)
     \/ \E AllMappings \in MappingLists(MaxMappings), order \in PreferenceOrders :
          last = ResolveRequest(AllMappings, order)

NextResolver ==
  \/ GetInputImageSpriteFromAction
  \/ GetInputImageSpriteFromAxis
  \/ Resolve

SpecResolver == InitResolver /\ [][NextResolver]_vars

\* ---------------------------------------------------------------------------
\* Subsystem: callbacks bound to the detector's delegates, and the pools
\* ---------------------------------------------------------------------------

\* What GetGameInstance()->GetGameViewportClient() gives at the time of a
\* callback: no viewport client, one of another class, or one of class
\* UStevesGameViewportClientBase.
ViewportClients == {"None", "Other", "Steves"}

\* Names pools are asked for by.
PoolNames == {"None", "PoolA", "PoolB"}

\* The parts of a callback or of a pool request kept in the operation record.
ViewportClientOf(l) == l[22]

NameOf(l) == l[23]

AutoCreateOf(l) == l[24]

PoolOf(l) == l[25]

NewModeGiven(l) == l[27]

\* Mutant of LogsWarning: bCheckedViewportClient is not looked at.
LogsWarning_EveryTime(ViewportClient) == ViewportClient # "Steves"

\* if (!bCheckedViewportClient) { ... if (!VC) UE_LOG(Warning, ...) ... }
\* with VC the viewport client cast to UStevesGameViewportClientBase.
LogsWarning(ViewportClient) ==
  /\ ~bCheckedViewportClient
  /\ ViewportClient # "Steves"

\* Mutant of SuppressAfter: every mode but Gamepad shows the cursor again.
SuppressAfter_ElseShown(NewMode, ViewportClient) ==
  IF ViewportClient = "Steves"
    THEN NewMode = "Gamepad"
    ELSE bSuppressMouseCursor

\* The cursor suppression flag after the callback: SetSuppressMouseCursor(true)
\* for Gamepad and (false) for Mouse, if the viewport client is of the
\* helper's class.
SuppressAfter(NewMode, ViewportClient) ==
  IF ViewportClient = "Steves" /\ NewMode = "Gamepad" THEN TRUE
  ELSE IF ViewportClient = "Steves" /\ NewMode = "Mouse" THEN FALSE
  ELSE bSuppressMouseCursor

\* OnInputModeChanged.Broadcast(PlayerIndex, NewMode) /
\* OnButtonInputModeChanged.Broadcast(PlayerIndex, NewMode)
Relayed(kind, PlayerIndex, NewMode) == << <<kind, PlayerIndex, NewMode>> >>

OnInputDetectorModeChanged(PlayerIndex, NewMode, ViewportClient) ==
  /\ ~crashed
  /\ bCheckedViewportClient' = TRUE
  /\ WarningsLogged' = IF LogsWarning(ViewportClient)
                         THEN WarningsLogged + 1
                         ELSE WarningsLogged
  /\ bSuppressMouseCursor' = SuppressAfter(NewMode, ViewportClient)
  /\ fired' = Relayed("OnInputModeChanged", PlayerIndex, NewMode)
  /\ last' = [NoOp EXCEPT ![1] = "OnInputDetectorModeChanged", ![2] = PlayerIndex,
                          ![22] = ViewportClient, ![27] = NewMode]
  /\ UNCHANGED <<LastInputModeByPlayer, LastButtonPressByPlayer, bIgnoreEvents,
                 bIsForeground, ZeroValue, crashed, broadcasts, TextureRenderTargetPools>>

OnButtonInputDetectorModeChanged(PlayerIndex, NewMode) ==
  /\ ~crashed
  /\ fired' = Relayed("OnButtonInputModeChanged", PlayerIndex, NewMode)
  /\ last' = [NoOp EXCEPT ![1] = "OnButtonInputDetectorModeChanged", ![2] = PlayerIndex,
                          ![27] = NewMode]
  /\ UNCHANGED <<LastInputModeByPlayer, LastButtonPressByPlayer, bIgnoreEvents,
                 bIsForeground, ZeroValue, crashed, broadcasts>>
  /\ UNCHANGED subsystemVars

\* Mutant of PoolNamed: the pool added last is not looked at.
RECURSIVE PoolNamed_SkipLast(_, _, _)
PoolNamed_SkipLast(pools, k, Name) ==
  IF k >= Len(pools) THEN 0
  ELSE IF pools[k] = Name THEN k
  ELSE PoolNamed_SkipLast(pools, k + 1, Name)

\* for (auto Tex : TextureRenderTargetPools) if (Tex->GetName() == Name)
\* return Tex; from position k on: the position of the pool found, 0 if none.
RECURSIVE PoolNamed(_, _, _)
PoolNamed(pools, k, Name) ==
  IF k > Len(pools) THEN 0
  ELSE IF pools[k] = Name THEN k
  ELSE PoolNamed(pools, k + 1, Name)

\* A pool is told by its position in the list; 0 is nullptr.
GetTextureRenderTargetPool(Name, bAutoCreate) ==
  LET found == PoolNamed(TextureRenderTargetPools, 1, Name)
      rec == [NoOp EXCEPT ![1] = "GetTextureRenderTargetPool", ![23] = Name,
                          ![24] = bAutoCreate]
  IN  /\ ~crashed
      /\ fired' = <<>>
      /\ IF found # 0
           THEN /\ last' = [rec EXCEPT ![25] = found]
                /\ UNCHANGED TextureRenderTargetPools
           ELSE IF bAutoCreate
             THEN /\ TextureRenderTargetPools' = Append(TextureRenderTargetPools, Name)
                  /\ last' = [rec EXCEPT ![25] = Len(TextureRenderTargetPools) + 1]
             ELSE /\ last' = rec
                  /\ UNCHANGED TextureRenderTargetPools
      /\ UNCHANGED <<LastInputModeByPlayer, LastButtonPressByPlayer, bIgnoreEvents,
                     bIsForeground, ZeroValue, crashed, broadcasts,
                     bCheckedViewportClient, WarningsLogged, bSuppressMouseCursor>>

NextSubsystem ==
  \/ \E PlayerIndex \in EventSlots, NewMode \in StoredModes,
        ViewportClient \in ViewportClients :
       OnInputDetectorModeChanged(PlayerIndex, NewMode, ViewportClient)
  \/ \E PlayerIndex \in EventSlots, NewMode \in StoredModes :
       OnButtonInputDetectorModeChanged(PlayerIndex, NewMode)
  \/ \E Name \in PoolNames, bAutoCreate \in BOOLEAN :
       GetTextureRenderTargetPool(Name, bAutoCreate)

SpecSubsystem == Init /\ [][NextSubsystem]_vars

\* ---------------------------------------------------------------------------
\* Properties
\* ---------------------------------------------------------------------------

HasNotification(f, kind) == \E i \in 1 .. Len(f) : KindOf(f[i]) = kind

OutOfRange(arr, PlayerIndex) == PlayerIndex < 0 \/ PlayerIndex >= Len(arr)

\* C2: for every event handled for a player slot s (0-based), the main-mode
\* notification is raised iff GetLastInputMode(s) after the event differs from
\* before it, and the button-mode notification is raised iff
\* GetLastButtonInputMode(s) differs; every notification raised is for s.
C2_NotifyIffChanged ==
  [][(Op(last') \in EventOps /\ SlotOf(last') \in PlayerSlots) =>
       /\ HasNotification(fired', "OnInputModeChanged")
            <=> (LastInputModeOf(LastInputModeByPlayer', SlotOf(last'))
                   # LastInputModeOf(LastInputModeByPlayer, SlotOf(last')))
       /\ HasNotification(fired', "OnButtonInputModeChanged")
            <=> (LastButtonInputModeOf(LastButtonPressByPlayer', SlotOf(last'))
                   # LastButtonInputModeOf(LastButtonPressByPlayer, SlotOf(last')))
       /\ \A i \in 1 .. Len(fired') : PlayerIndexOf(fired'[i]) = SlotOf(last')]_vars

\* C2 witness: an event for a player slot raised both notifications.
C2_Witness ==
  /\ Op(last) \in EventOps
  /\ SlotOf(last) \in PlayerSlots
  /\ HasNotification(fired, "OnInputModeChanged")
  /\ HasNotification(fired, "OnButtonInputModeChanged")

\* C3: while bIgnoreEvents is set, an event of any kind for any player index
\* leaves both arrays as they were and raises no notification.
C3_SuppressedIsNoOp ==
  [][(Op(last') \in EventOps /\ bIgnoreEvents) =>
       /\ LastInputModeByPlayer' = LastInputModeByPlayer
       /\ LastButtonPressByPlayer' = LastButtonPressByPlayer
       /\ fired' = <<>>]_vars

\* C3 witness: a key-down event arrived while the detector was suppressed, for
\* a key whose mode differs from the stored one.
C3_Witness ==
  /\ Op(last) = "HandleKeyDownEvent"
  /\ Ignored(last)
  /\ KeyOf(last) \in GamepadKeys
  /\ GetLastInputMode(SlotOf(last)) # "Gamepad"

\* C4: an unsuppressed key-down event with one of the eight stick keys leaves
\* the main mode of its player slot (0-based) at Gamepad, leaves the button
\* array as it was and raises no button-mode notification.
C4_StickKeyIsNotAButton ==
  [][(Op(last') = "HandleKeyDownEvent" /\ ~bIgnoreEvents /\ KeyOf(last') \in StickKeys
        /\ SlotOf(last') \in PlayerSlots) =>
       /\ LastInputModeOf(LastInputModeByPlayer', SlotOf(last')) = "Gamepad"
       /\ LastButtonPressByPlayer' = LastButtonPressByPlayer
       /\ ~HasNotification(fired', "OnButtonInputModeChanged")]_vars

\* C4 witness: a stick key moved a slot's main mode to Gamepad while its button
\* mode is not Gamepad.
C4_Witness ==
  /\ Op(last) = "HandleKeyDownEvent"
  /\ ~Ignored(last)
  /\ KeyOf(last) \in StickKeys
  /\ SlotOf(last) \in PlayerSlots
  /\ HasNotification(fired, "OnInputModeChanged")
  /\ GetLastButtonInputMode(SlotOf(last)) # "Gamepad"

\* C5: analog, mouse-move and wheel/gesture events never change the button
\* array and never raise the button-mode notification; a step that changes the
\* button array is a key-down or mouse-button-down event.
C5_OnlyButtonsChangeButtonMode ==
  [][/\ (Op(last') \in {"HandleAnalogInputEvent", "HandleMouseMoveEvent",
                       "HandleMouseWheelOrGestureEvent"}) =>
          /\ LastButtonPressByPlayer' = LastButtonPressByPlayer
          /\ ~HasNotification(fired', "OnButtonInputModeChanged")
     /\ (LastButtonPressByPlayer' # LastButtonPressByPlayer) =>
          Op(last') \in {"HandleKeyDownEvent", "HandleMouseButtonDownEvent"}]_vars

\* C5 witness: an analog event above the threshold changed a main mode.
C5_Witness ==
  /\ Op(last) = "HandleAnalogInputEvent"
  /\ AnalogValueOf(last) > GamepadAxisThreshold
  /\ HasNotification(fired, "OnInputModeChanged")

\* C6: after an unsuppressed event classified to mode M for a player index
\* s >= 0, inside the arrays or not, GetLastInputMode(s) is M, and
\* GetLastButtonInputMode(s) is M too if the event is a button event.
C6_WriteIsRead ==
  (Op(last) \in EventOps /\ Called(CallOf(last)) /\ SlotOf(last) >= 0) =>
    /\ GetLastInputMode(SlotOf(last)) = NewModeOf(CallOf(last))
    /\ IsButtonOf(CallOf(last)) => GetLastButtonInputMode(SlotOf(last)) = NewModeOf(CallOf(last))

\* C6 witness: a button event for an index beyond the initial storage changed
\* both modes of that index.
C6_Witness ==
  /\ Op(last) \in EventOps
  /\ Called(CallOf(last))
  /\ IsButtonOf(CallOf(last))
  /\ SlotOf(last) >= InitNum
  /\ Len(fired) = 2
  /\ Len(LastInputModeByPlayer) = SlotOf(last) + 1
  /\ Len(LastButtonPressByPlayer) = SlotOf(last) + 1

\* C7: an event for player index s leaves GetLastInputMode(t) and
\* GetLastButtonInputMode(t) as they were for every other index t.
C7_OtherSlotsUntouched ==
  [][\A t \in QuerySlots :
       (Op(last') \in EventOps /\ t # SlotOf(last')) =>
         /\ GetLastInputMode(t)' = GetLastInputMode(t)
         /\ GetLastButtonInputMode(t)' = GetLastButtonInputMode(t)]_vars

\* C8: a getter asked about an index outside its array returns the default
\* (Mouse for the main mode, Keyboard for the button mode), and a getter
\* leaves both arrays as they were.
C8_ReadsOutOfRange ==
  [][/\ (Op(last') = "GetLastInputModeUsed") =>
          /\ OutOfRange(LastInputModeByPlayer, SlotOf(last')) => ResultOf(last') = "Mouse"
          /\ LastInputModeByPlayer' = LastInputModeByPlayer
          /\ LastButtonPressByPlayer' = LastButtonPressByPlayer
     /\ (Op(last') = "GetLastInputButtonPressed") =>
          /\ OutOfRange(LastButtonPressByPlayer, SlotOf(last'))
               => ResultOf(last') = "Keyboard"
          /\ LastInputModeByPlayer' = LastInputModeByPlayer
          /\ LastButtonPressByPlayer' = LastButtonPressByPlayer]_vars

\* C8 witness: the button getter was asked about an index beyond the button
\* array while the main array had already grown to hold that index.
C8_Witness ==
  /\ Op(last) = "GetLastInputButtonPressed"
  /\ OutOfRange(LastButtonPressByPlayer, SlotOf(last))
  /\ ~OutOfRange(LastInputModeByPlayer, SlotOf(last))
  /\ GetLastInputMode(SlotOf(last)) = "Gamepad"

\* C9: no event handler indexes an array outside its bounds, whatever player
\* index the event carries.
C9_NoOutOfBounds == ~Oob(last) /\ ~crashed

\* C10: an unsuppressed analog event with value m for a player slot leaves the
\* slot's main mode at Gamepad when |m| > GamepadAxisThreshold and changes
\* nothing when |m| <= GamepadAxisThreshold.
C10_AnalogAbsThreshold ==
  [][(Op(last') = "HandleAnalogInputEvent" /\ ~bIgnoreEvents
        /\ SlotOf(last') \in PlayerSlots) =>
       IF Abs(AnalogValueOf(last')) > GamepadAxisThreshold
         THEN LastInputModeOf(LastInputModeByPlayer', SlotOf(last')) = "Gamepad"
         ELSE /\ LastInputModeByPlayer' = LastInputModeByPlayer
              /\ LastButtonPressByPlayer' = LastButtonPressByPlayer
              /\ fired' = <<>>]_vars

\* C11: an unsuppressed mouse-move event with distances (dx, dy) leaves the
\* main mode of its player slot (0-based) at Mouse when |dx| > 1 or |dy| > 1,
\* and, for any player index, leaves both arrays as they were and raises no
\* notification when |dx| <= 1 and |dy| <= 1.
C11_MouseMoveThreshold ==
  [][(Op(last') = "HandleMouseMoveEvent" /\ ~bIgnoreEvents) =>
       IF Abs(DistXOf(last')) > 1 \/ Abs(DistYOf(last')) > 1
         THEN SlotOf(last') \in PlayerSlots =>
                LastInputModeOf(LastInputModeByPlayer', SlotOf(last')) = "Mouse"
         ELSE /\ LastInputModeByPlayer' = LastInputModeByPlayer
              /\ LastButtonPressByPlayer' = LastButtonPressByPlayer
              /\ fired' = <<>>]_vars

\* C11 witness: a mouse move whose vertical distance alone is above the
\* threshold moved a slot's main mode to Mouse.
C11_Witness ==
  /\ Op(last) = "HandleMouseMoveEvent"
  /\ ~Ignored(last)
  /\ Abs(DistXOf(last)) <= 1
  /\ Abs(DistYOf(last)) > 1
  /\ SlotOf(last) \in PlayerSlots
  /\ fired = <<MainNotification(SlotOf(last), "Mouse")>>

\* C11 witness, below the threshold: a mouse move with both distances at the
\* threshold arrived for a slot whose main mode is not Mouse.
C11_WitnessBelow ==
  /\ Op(last) = "HandleMouseMoveEvent"
  /\ ~Ignored(last)
  /\ Abs(DistXOf(last)) = 1
  /\ Abs(DistYOf(last)) = 1
  /\ GetLastInputMode(SlotOf(last)) # "Mouse"

CountOf(f, kind) == Cardinality({i \in 1 .. Len(f) : KindOf(f[i]) = kind})

\* l records an unsuppressed mouse move with a distance above the threshold.
MovedAboveThreshold(l) ==
  /\ Op(l) = "HandleMouseMoveEvent"
  /\ ~Ignored(l)
  /\ (Abs(DistXOf(l)) > 1 \/ Abs(DistYOf(l)) > 1)

\* The step is the second of two unsuppressed above-threshold mouse moves
\* handled one after the other for the same player index.
SecondOfTwoMoves ==
  /\ MovedAboveThreshold(last)
  /\ ~bIgnoreEvents
  /\ MovedAboveThreshold(last')
  /\ SlotOf(last') = SlotOf(last)

\* C12 as stated: two unsuppressed above-threshold mouse moves in succession
\* for the same slot raise exactly one main-mode notification in total, and
\* the second changes nothing.
C12_ExactlyOne ==
  [][SecondOfTwoMoves =>
       /\ CountOf(fired, "OnInputModeChanged") + CountOf(fired', "OnInputModeChanged") = 1
       /\ fired' = <<>>
       /\ LastInputModeByPlayer' = LastInputModeByPlayer
       /\ LastButtonPressByPlayer' = LastButtonPressByPlayer]_vars

\* C12 amended: two unsuppressed above-threshold mouse moves in succession for
\* the same slot raise at most one main-mode notification in total, that of
\* the first move for Mouse, and the second move changes nothing and raises
\* nothing.
C12_AtMostOne ==
  [][SecondOfTwoMoves =>
       /\ CountOf(fired, "OnInputModeChanged") + CountOf(fired', "OnInputModeChanged") <= 1
       /\ fired \in {<<>>, <<MainNotification(SlotOf(last), "Mouse")>>}
       /\ fired' = <<>>
       /\ LastInputModeByPlayer' = LastInputModeByPlayer
       /\ LastButtonPressByPlayer' = LastButtonPressByPlayer]_vars

\* C12 witness: the second of two above-threshold mouse moves for a slot ran
\* after the first had moved the slot to Mouse and raised the notification.
C12_Witness ==
  /\ MovedAboveThreshold(last)
  /\ SlotOf(last) \in PlayerSlots
  /\ PrecedingMove(last) = 1
  /\ fired = <<>>
  /\ GetLastInputMode(SlotOf(last)) = "Mouse"

\* The class of a key as C13 words it: the mode and the button flag.
KeyClass(Key) ==
  IF Key \in GamepadKeys \ StickKeys THEN <<"Gamepad", TRUE>>
  ELSE IF Key \in StickKeys THEN <<"Gamepad", FALSE>>
  ELSE IF Key \in MouseButtons THEN <<"Mouse", TRUE>>
  ELSE <<"Keyboard", TRUE>>

\* C13: an unsuppressed key-down event calls SetMode once, for the event's
\* player index, with the mode and button flag of its key's class: gamepad key
\* other than a stick key -> (Gamepad, button), stick key -> (Gamepad, not
\* button), mouse button -> (Mouse, button), any other key -> (Keyboard,
\* button); the arrays and the delegate calls after the event are those of
\* that SetMode call (unless the call indexed outside an array, C9).
C13_KeyDownClassified ==
  [][(Op(last') = "HandleKeyDownEvent" /\ ~bIgnoreEvents) =>
       LET class == KeyClass(KeyOf(last'))
           r == SetMode(LastInputModeByPlayer, LastButtonPressByPlayer,
                        SlotOf(last'), class[1], class[2])
       IN  /\ CallOf(last') = <<TRUE, class[1], class[2]>>
           /\ \/ Oob(last')
              \/ /\ LastInputModeByPlayer' = MainAfter(r)
                 /\ LastButtonPressByPlayer' = ButtonAfter(r)
                 /\ fired' = FiredBy(r)]_vars

\* C13 witness: a mouse-button key-down for a grown slot changed both of the
\* slot's modes to Mouse.
C13_Witness ==
  /\ Op(last) = "HandleKeyDownEvent"
  /\ ~Ignored(last)
  /\ KeyOf(last) \in MouseButtons
  /\ SlotOf(last) = MaxSlot
  /\ fired = <<ButtonNotification(MaxSlot, "Mouse"), MainNotification(MaxSlot, "Mouse")>>

\* C14: after an unsuppressed mouse-button-down event for a player slot s
\* (0-based), GetLastInputMode(s) and GetLastButtonInputMode(s) are both
\* Mouse, whatever the two arrays held before.
C14_MouseButtonSetsBoth ==
  [][(Op(last') = "HandleMouseButtonDownEvent" /\ ~bIgnoreEvents
        /\ SlotOf(last') \in PlayerSlots) =>
       /\ LastInputModeOf(LastInputModeByPlayer', SlotOf(last')) = "Mouse"
       /\ LastButtonInputModeOf(LastButtonPressByPlayer', SlotOf(last')) = "Mouse"]_vars

\* C14 witness: a mouse-button-down event moved both modes of a slot, neither
\* of which was Mouse, to Mouse.
C14_Witness ==
  /\ Op(last) = "HandleMouseButtonDownEvent"
  /\ ~Ignored(last)
  /\ SlotOf(last) \in PlayerSlots
  /\ Len(fired) = 2
  /\ GetLastInputMode(SlotOf(last)) = "Mouse"
  /\ GetLastButtonInputMode(SlotOf(last)) = "Mouse"

\* C15: an event that changes both the button mode and the main mode of its
\* player slot makes exactly two delegate calls, OnButtonInputModeChanged
\* first and OnInputModeChanged second, both with the event's player index and
\* the mode the slot is left at; and no event calls either delegate more than
\* once.
C15_ButtonBeforeMain ==
  [][Op(last') \in EventOps =>
       LET s == SlotOf(last')
           M == LastInputModeOf(LastInputModeByPlayer', s)
       IN  /\ CountOf(fired', "OnButtonInputModeChanged") <= 1
           /\ CountOf(fired', "OnInputModeChanged") <= 1
           /\ (/\ M # LastInputModeOf(LastInputModeByPlayer, s)
               /\ LastButtonInputModeOf(LastButtonPressByPlayer', s)
                    # LastButtonInputModeOf(LastButtonPressByPlayer, s))
                => /\ fired' = << <<"OnButtonInputModeChanged", s, M>>,
                                  <<"OnInputModeChanged", s, M>> >>
                   /\ LastButtonInputModeOf(LastButtonPressByPlayer', s) = M]_vars

\* C15 witness: a key-down event changed both modes of a slot and both
\* delegates were called.
C15_Witness ==
  /\ Op(last) = "HandleKeyDownEvent"
  /\ SlotOf(last) \in PlayerSlots
  /\ Len(fired) = 2
  /\ KindOf(fired[1]) = "OnButtonInputModeChanged"
  /\ KindOf(fired[2]) = "OnInputModeChanged"
  /\ ModeOf(fired[1]) = "Keyboard"
  /\ ModeOf(fired[2]) = "Keyboard"

\* C16: each of the five event handlers returns false (event not consumed) in
\* every state: suppressed or not, SetMode called or not, mode changed or not.
C16_NeverConsumed == Op(last) \in EventOps => ~Consumed(last)

\* C16 witness: an event that changed both modes of its slot was passed on.
C16_Witness ==
  /\ Op(last) \in EventOps
  /\ Called(CallOf(last))
  /\ Len(fired) = 2
  /\ ~Consumed(last)

\* C17: a foreground poll that finds a viewport and a window state different
\* from the stored bIsForeground stores it, sets bIgnoreEvents to its
\* negation and broadcasts OnWindowForegroundChanged once with it, and the
\* value differs from that of the broadcast before; any other poll (same
\* state, or no viewport) changes nothing and broadcasts nothing; and no other
\* operation touches bIsForeground or bIgnoreEvents or makes the broadcast.
C17_EdgeTriggered ==
  [][/\ (Op(last') = "CheckForeground") =>
          IF ViewportOf(last') /\ PolledOf(last') # bIsForeground
            THEN /\ bIsForeground' = PolledOf(last')
                 /\ bIgnoreEvents' = ~PolledOf(last')
                 /\ fired' = << <<"OnWindowForegroundChanged", PolledOf(last')>> >>
                 /\ broadcasts' = <<PolledOf(last')>>
                 /\ broadcasts' # broadcasts
            ELSE /\ fired' = <<>>
                 /\ UNCHANGED <<bIsForeground, bIgnoreEvents, broadcasts,
                                LastInputModeByPlayer, LastButtonPressByPlayer>>
     /\ (Op(last') # "CheckForeground") =>
          /\ UNCHANGED <<bIsForeground, bIgnoreEvents, broadcasts>>
          /\ ~HasNotification(fired', "OnWindowForegroundChanged")]_vars

\* C17 witness: a poll found the window back in the foreground and broadcast
\* true after an earlier poll had broadcast false.
C17_Witness ==
  /\ Op(last) = "CheckForeground"
  /\ Broadcast(last)
  /\ bIsForeground
  /\ ~bIgnoreEvents
  /\ broadcasts = <<TRUE>>
  /\ fired = << <<"OnWindowForegroundChanged", TRUE>> >>

\* The operation that ran last chose among mappings.
ChoiceMade ==
  Op(last) \in {"ResolvePreferred", "GetInputImageSpriteFromAction",
                "GetInputImageSpriteFromAxis"}

\* The preference order the choice was made with.
OrderUsed ==
  IF Op(last) = "ResolvePreferred" THEN OrderGiven(last) ELSE OrderOf(PassedPreference(last))

\* Mapping k of the choice matches predicate j of its order.
MatchAt(j, k) ==
  LET predicate == OrderUsed[j]
      device == DeviceOf(MappingsOf(last)[k])
  IN  \/ predicate = device
      \/ predicate = "LastButtonDevice" /\ device = GetLastButtonInputMode(SlotOf(last))
      \/ predicate = "LastInputDevice" /\ device = GetLastInputMode(SlotOf(last))

AnyMatch ==
  \E j \in 1 .. Len(OrderUsed), k \in 1 .. Len(MappingsOf(last)) : MatchAt(j, k)

\* C18: when some mapping matches some predicate of the order, the mapping
\* chosen is the first one in declared order that matches the first predicate
\* in priority order that any mapping matches; so with an order that starts
\* with Gamepad and a list holding a gamepad mapping, the first gamepad mapping
\* declared is chosen, wherever it sits.
C18_FirstOfEarliestPredicate ==
  (ChoiceMade /\ AnyMatch) =>
    LET i == Preferred(last)
        gamepad == {k \in 1 .. Len(MappingsOf(last)) :
                      DeviceOf(MappingsOf(last)[k]) = "Gamepad"}
    IN  /\ i \in 1 .. Len(MappingsOf(last))
        /\ \E j \in 1 .. Len(OrderUsed) :
             /\ MatchAt(j, i)
             /\ \A k \in 1 .. (i - 1) : ~MatchAt(j, k)
             /\ \A h \in 1 .. (j - 1), k \in 1 .. Len(MappingsOf(last)) : ~MatchAt(h, k)
        /\ (OrderUsed[1] = "Gamepad" /\ gamepad # {}) =>
             /\ i \in gamepad
             /\ \A k \in gamepad : i <= k

\* C18 witness: an action lookup with Auto for a list of a keyboard mapping
\* followed by two different gamepad mappings chose the first gamepad mapping.
C18_Witness ==
  /\ Op(last) = "GetInputImageSpriteFromAction"
  /\ DevicePreferenceOf(last) = "Auto"
  /\ MappingsOf(last) = <<"SpaceBar", "Gamepad_LeftStick_Up", "Gamepad_FaceButton_Bottom">>
  /\ Preferred(last) = 2
  /\ KeyOf(last) = "Gamepad_LeftStick_Up"

\* C19: a choice among no mappings, or among mappings none of which matches
\* any predicate of the order, gives none, for every order and every pair of
\* last modes, and the lookup by action or axis name then returns no image.
C19_NoneWithoutMatch ==
  (ChoiceMade /\ (MappingsOf(last) = <<>> \/ ~AnyMatch)) =>
    /\ Preferred(last) = 0
    /\ Op(last) # "ResolvePreferred" => (ResultOf(last) = "None" /\ KeyOf(last) = "None")

\* C19 witness: a choice among three mappings, none of the device that made
\* the last button press, which is all the order asks for, gave none.
C19_Witness ==
  /\ Op(last) = "ResolvePreferred"
  /\ Len(MappingsOf(last)) = MaxMappings
  /\ OrderGiven(last) = <<"LastButtonDevice">>
  /\ ~AnyMatch
  /\ Preferred(last) = 0

\* C19 witness, empty list: an axis lookup for a name without mappings
\* returned no image although a theme was there.
C19_WitnessEmpty ==
  /\ Op(last) = "GetInputImageSpriteFromAxis"
  /\ MappingsOf(last) = <<>>
  /\ ThemeOf(last)
  /\ ResultOf(last) = "None"

C21_WarnOnceRelayAlways ==
  /\ WarningsLogged <= 1
  /\ (Op(last) = "OnInputDetectorModeChanged") =>
       fired = << <<"OnInputModeChanged", SlotOf(last), NewModeGiven(last)>> >>

\* C21 witness: the warning has been logged once, a later call found a
\* viewport client of the helper's class, and the call after that found none
\* again: it relayed and the count stayed at one.
C21_Witness ==
  /\ Op(last) = "OnInputDetectorModeChanged"
  /\ ViewportClientOf(last) = "None"
  /\ bCheckedViewportClient
  /\ WarningsLogged = 1
  /\ bSuppressMouseCursor
  /\ fired = << <<"OnInputModeChanged", SlotOf(last), NewModeGiven(last)>> >>

\* C26: when OnInputDetectorModeChanged finds a viewport client of the
\* helper's base class, the cursor suppression flag is true after a call with
\* Gamepad, false after a call with Mouse and as it was after a call with
\* Keyboard, whatever the player index of the call.
C26_CursorFollowsMode ==
  [][(/\ Op(last') = "OnInputDetectorModeChanged"
      /\ ViewportClientOf(last') = "Steves") =>
       \A PlayerIndex \in EventSlots :
         SlotOf(last') = PlayerIndex =>
           /\ NewModeGiven(last') = "Gamepad" => bSuppressMouseCursor'
           /\ NewModeGiven(last') = "Mouse" => ~bSuppressMouseCursor'
           /\ NewModeGiven(last') = "Keyboard" =>
                bSuppressMouseCursor' = bSuppressMouseCursor]_vars

\* C26 witness: a Keyboard notification for the highest slot found the
\* helper's viewport client and left the cursor suppressed, as an earlier
\* Gamepad notification had set it.
C26_Witness ==
  /\ Op(last) = "OnInputDetectorModeChanged"
  /\ ViewportClientOf(last) = "Steves"
  /\ NewModeGiven(last) = "Keyboard"
  /\ SlotOf(last) = MaxSlot
  /\ bSuppressMouseCursor

\* Number of pools in the list that carry the name.
PoolsNamed(pools, Name) == Cardinality({k \in 1..Len(pools) : pools[k] = Name})

\* C22: after any sequence of GetTextureRenderTargetPool calls no two pools
\* of the list have the same name.
C22_UniqueNames ==
  \A Name \in PoolNames : PoolsNamed(TextureRenderTargetPools, Name) <= 1

\* C22: a call for a name in the list returns the pool of that name and adds
\* none; a call for a name not in the list adds exactly one pool of that name
\* and returns it when bAutoCreate is true, and returns null and leaves the
\* list as it was when bAutoCreate is false.
C22_CallResult ==
  [][(Op(last') = "GetTextureRenderTargetPool") =>
       LET Name == NameOf(last')
           had == PoolsNamed(TextureRenderTargetPools, Name) > 0
       IN /\ had =>
               /\ TextureRenderTargetPools' = TextureRenderTargetPools
               /\ PoolOf(last') \in 1..Len(TextureRenderTargetPools)
               /\ TextureRenderTargetPools[PoolOf(last')] = Name
          /\ (~had /\ AutoCreateOf(last')) =>
               /\ TextureRenderTargetPools' = Append(TextureRenderTargetPools, Name)
               /\ PoolOf(last') = Len(TextureRenderTargetPools')
          /\ (~had /\ ~AutoCreateOf(last')) =>
               /\ TextureRenderTargetPools' = TextureRenderTargetPools
               /\ PoolOf(last') = 0]_vars

\* C22: both parts together.
C22_PoolsByName == []C22_UniqueNames /\ C22_CallResult

\* C22 witness: with all three names in the list, a call with bAutoCreate
\* true for the name of the second pool returned that pool (a pool the call
\* had added would be the last) and the list still holds three pools.
C22_Witness ==
  /\ Op(last) = "GetTextureRenderTargetPool"
  /\ AutoCreateOf(last)
  /\ Len(TextureRenderTargetPools) = 3
  /\ PoolOf(last) = 2
  /\ NameOf(last) = TextureRenderTargetPools[2]
  /\ PoolsNamed(TextureRenderTargetPools, NameOf(last)) = 1

\* C24: in every reachable state the detector's bIgnoreEvents is the negation
\* of the subsystem's bIsForeground; CheckForeground is the only operation
\* that writes either.
C24_IgnoreIffBackground == bIgnoreEvents = ~bIsForeground

\* C24 witness: a poll that found the window in the background has just set
\* the flag, and it is set while bIsForeground is false.
C24_Witness ==
  /\ Op(last) = "CheckForeground"
  /\ Broadcast(last)
  /\ ~PolledOf(last)
  /\ bIgnoreEvents
  /\ ~bIsForeground

\* C23: while a delegate called by SetMode for player slot s (0-based) with
\* mode M runs, GetLastInputMode(s) already returns M and, when the event is a
\* button event, GetLastButtonInputMode(s) already returns M; this holds for
\* the button-mode delegate as for the main-mode delegate.
C23_NotifiedAfterWrites ==
  (Op(last) \in EventOps /\ SlotOf(last) \in PlayerSlots) =>
    /\ Len(ObservedOf(last)) = Len(fired)
    /\ \A i \in 1..Len(fired) :
         /\ fired[i][2] = SlotOf(last)
         /\ ObservedOf(last)[i][1] = fired[i][3]
         /\ IsButtonOf(CallOf(last)) => ObservedOf(last)[i][2] = fired[i][3]

\* C23 witness: a gamepad button of the highest slot changed both modes; the
\* button-mode delegate, called first, and the main-mode delegate both saw
\* Gamepad from both getters.
C23_Witness ==
  /\ Op(last) = "HandleKeyDownEvent"
  /\ SlotOf(last) = MaxSlot
  /\ IsButtonOf(CallOf(last))
  /\ fired = << ButtonNotification(MaxSlot, "Gamepad"), MainNotification(MaxSlot, "Gamepad") >>
  /\ ObservedOf(last) = << <<"Gamepad", "Gamepad">>, <<"Gamepad", "Gamepad">> >>

\* Straight after an unsuppressed event passed to SetMode as a button event
\* for player slot s >= 0, the two getters return the same mode for s.
C25_ButtonEventAligns ==
  [][(/\ Op(last') \in EventOps
      /\ ~bIgnoreEvents
      /\ Called(CallOf(last'))
      /\ IsButtonOf(CallOf(last'))
      /\ SlotOf(last') \in PlayerSlots) =>
       LastInputModeOf(LastInputModeByPlayer', SlotOf(last'))
         = LastButtonInputModeOf(LastButtonPressByPlayer', SlotOf(last'))]_vars

\* A step after which the two modes of a slot differ when they agreed before
\* it is an event passed to SetMode as a non-button event.
C25_OnlyNonButtonSplits ==
  [][\A t \in PlayerSlots :
       (/\ GetLastInputMode(t) = GetLastButtonInputMode(t)
        /\ LastInputModeOf(LastInputModeByPlayer', t)
             # LastButtonInputModeOf(LastButtonPressByPlayer', t)) =>
         /\ Op(last') \in EventOps
         /\ Called(CallOf(last'))
         /\ ~IsButtonOf(CallOf(last'))]_vars

\* C25: straight after an unsuppressed button event (a key that is no stick
\* key, or a mouse button press) for player slot s >= 0, GetLastInputMode(s)
\* equals GetLastButtonInputMode(s); and the two modes of a slot, once equal,
\* come to differ only by a non-button event (analog, mouse move, wheel or
\* gesture, stick key).
C25_ModesSplitOnlyByNonButton == C25_ButtonEventAligns /\ C25_OnlyNonButtonSplits

====
